---- MODULE Spec2Model ----
(***************************************************************************)
(* Model of src/basic/SearchDialog.tsx: the SearchDialog component (catalog *)
(* load and cache, six-predicate filter, debounced criteria updates,        *)
(* incremental pagination driven by an IntersectionObserver, export of a    *)
(* lecture's schedule to the timetable store).                              *)
(*                                                                          *)
(* Strings that the code inspects character by character (id, title, query, *)
(* credits, schedule) are sequences of one-character strings.  An optional  *)
(* value (credits?, day?, time?, searchInfo | null) is a sequence of length *)
(* at most one: << >> is undefined / null, <<v>> is the value v.            *)
(***************************************************************************)
EXTENDS Integers, Sequences, FiniteSets, TLC

VARIABLES
    mounted,           \* the component has been committed and its mount effects ran
    searchInfo,        \* prop searchInfo: << >> (null) or <<[tableId, day, time]>>
    lectures,          \* useState lectures
    page,              \* useState page
    searchOptions,     \* useState searchOptions
    filteredLectures,  \* useMemo filteredLectures (recomputed when its inputs change)
    lecturesCache,     \* useRef lecturesCache.current
    inflight,          \* fetchAllLectures() promises not yet settled
    requests,          \* network requests issued so far (axios.get calls)
    responses,         \* history: the two responses of the last settled load
    observers,         \* IntersectionObserver registrations: [lastPage, attached]
    timers,            \* pending setTimeout entries of debounce: [field, value, elapsed, current]
    schedulesMap,      \* external timetable store (ScheduleContext)
    closes,            \* number of onClose() calls made by the component
    lastEvent,         \* history: the last handler that set the component's state
    prevPage,          \* history: page before the last handler ran
    calls,             \* history: update calls of the current burst
    commits,           \* history: debounced commits since the current burst began
    lastCall,          \* history: arguments of the most recent update call
    pending            \* handlers that set state since the last render: [event, before]

vars == <<mounted, searchInfo, lectures, page, searchOptions, filteredLectures,
          lecturesCache, inflight, requests, responses, observers, timers,
          schedulesMap, closes, lastEvent, prevPage, calls, commits, lastCall,
          pending>>

----------------------------------------------------------------------------
(* Program constants *)

PAGE_SIZE == 100

WAIT == 300

(* Bounds of the model *)

\* granularity of the clock, in ms
TickMs == 150

\* longest burst of update calls followed
MaxCalls == 2

\* number of exports followed
MaxExports == 1

\* records of the large catalog beyond the 250 first-grade ones
Extra == 3

\* fetchAllLectures() calls the model follows
MaxLoads == 2

\* handlers that may run between two renders
MaxPending == 2

----------------------------------------------------------------------------
(* JavaScript helpers *)

Min(a, b) == IF a <= b THEN a ELSE b

Max(a, b) == IF a >= b THEN a ELSE b

\* Math.ceil(n / d) for n >= 0, d > 0
MathCeilDiv(n, d) == (n + d - 1) \div d

\* slice with the end index taken as inclusive
SliceInclusiveEnd(s, start, end) ==
    LET n  == Len(s)
        from == IF start < 0 THEN Max(n + start, 0) ELSE Min(start, n)
        to   == IF end < 0 THEN Max(n + end + 1, 0) ELSE Min(end + 1, n)
    IN  IF from >= to THEN << >> ELSE SubSeq(s, from + 1, to)

\* Array.prototype.slice(start, end): negative indices count from the end,
\* both are clamped to [0, length]
Slice(s, start, end) ==
    LET n  == Len(s)
        from == IF start < 0 THEN Max(n + start, 0) ELSE Min(start, n)
        to   == IF end < 0 THEN Max(n + end, 0) ELSE Min(end, n)
    IN  IF from >= to THEN << >> ELSE SubSeq(s, from + 1, to)

LowerChar(c) ==
    CASE c = "A" -> "a"
      [] c = "B" -> "b"
      [] c = "I" -> "i"
      [] c = "N" -> "n"
      [] c = "Z" -> "z"
      [] OTHER   -> c

\* String.prototype.toLowerCase
ToLowerCase(s) == [i \in 1..Len(s) |-> LowerChar(s[i])]

\* String.prototype.includes
Includes(s, q) ==
    \E i \in 0..(Len(s) - Len(q)) : SubSeq(s, i + 1, i + Len(q)) = q

\* String.prototype.startsWith
StartsWith(s, q) == Len(q) <= Len(s) /\ SubSeq(s, 1, Len(q)) = q

\* Array.prototype.includes
ArrayIncludes(arr, x) == \E i \in 1..Len(arr) : arr[i] = x

----------------------------------------------------------------------------
(* parseSchedule (utils.ts): a schedule encoding is a list of slots separated  *)
(* by the token "<p>"; a slot is a day label, a two-digit first period, "-"    *)
(* and a two-digit last period (Mon 01-02 is Monday, periods 1 to 2).  A piece *)
(* that is not of this shape yields no slot.  The Korean one-character day     *)
(* labels of DAY_LABELS are written Mon .. Sat.                                *)

DAY_LABELS == {"Mon", "Tue", "Wed", "Thu", "Fri", "Sat"}

DigitChars == <<"0", "1", "2", "3", "4", "5", "6", "7", "8", "9">>

IsDigit(c) == \E d \in 1..10 : DigitChars[d] = c

DigitVal(c) == (CHOOSE d \in 1..10 : DigitChars[d] = c) - 1

RECURSIVE SplitOn(_, _)
\* String.prototype.split(sep) for a one-token separator
SplitOn(s, sep) ==
    IF \A i \in 1..Len(s) : s[i] # sep
    THEN <<s>>
    ELSE LET k == CHOOSE i \in 1..Len(s) : s[i] = sep /\ \A j \in 1..(i - 1) : s[j] # sep
         IN  <<SubSeq(s, 1, k - 1)>> \o SplitOn(SubSeq(s, k + 1, Len(s)), sep)

WellFormedSlot(piece) ==
    /\ Len(piece) = 6
    /\ piece[1] \in DAY_LABELS
    /\ IsDigit(piece[2]) /\ IsDigit(piece[3])
    /\ piece[4] = "-"
    /\ IsDigit(piece[5]) /\ IsDigit(piece[6])

ParseSlot(piece) ==
    LET first == 10 * DigitVal(piece[2]) + DigitVal(piece[3])
        last  == 10 * DigitVal(piece[5]) + DigitVal(piece[6])
    IN  [day |-> piece[1], range |-> [i \in 1..(last - first + 1) |-> first + i - 1]]

RECURSIVE ParsePieces(_)
ParsePieces(pieces) ==
    IF pieces = << >> THEN << >>
    ELSE (IF WellFormedSlot(Head(pieces)) THEN <<ParseSlot(Head(pieces))>> ELSE << >>)
         \o ParsePieces(Tail(pieces))

parseSchedule(schedule) == ParsePieces(SplitOn(schedule, "<p>"))

----------------------------------------------------------------------------
(* Filter engine: filteredLectures, lastPage, visibleLectures *)

\* !credits : credits is undefined or the empty string
NoCredits(credits) == credits = << >> \/ credits[1] = << >>

TextMatch(lecture, lowercaseQuery) ==
    \/ Includes(ToLowerCase(lecture.title), lowercaseQuery)
    \/ Includes(ToLowerCase(lecture.id), lowercaseQuery)

\* the grade predicate without its "empty set matches all" guard
GradeMatchNoGuard(lecture, grades) == ArrayIncludes(grades, lecture.grade)

GradeMatch(lecture, grades) == Len(grades) = 0 \/ ArrayIncludes(grades, lecture.grade)

MajorMatch(lecture, majors) == Len(majors) = 0 \/ ArrayIncludes(majors, lecture.major)

CreditMatch(lecture, credits) ==
    NoCredits(credits) \/ StartsWith(lecture.credits, credits[1])

\* lecture.schedule ? parseSchedule(lecture.schedule) : []
SchedulesOf(lecture) ==
    IF lecture.schedule # << >> THEN parseSchedule(lecture.schedule) ELSE << >>

\* a day predicate that asks every slot, not some slot, to be on a wanted day
DayMatchEverySlot(lecture, days) ==
    IF Len(days) = 0 THEN TRUE
    ELSE LET schedules == SchedulesOf(lecture)
         IN  \A i \in 1..Len(schedules) : ArrayIncludes(days, schedules[i].day)

DayMatch(lecture, days) ==
    IF Len(days) = 0 THEN TRUE
    ELSE LET schedules == SchedulesOf(lecture)
         IN  \E i \in 1..Len(schedules) : ArrayIncludes(days, schedules[i].day)

\* a time predicate that asks one slot to cover every wanted time
TimeMatchAllTimes(lecture, times) ==
    IF Len(times) = 0 THEN TRUE
    ELSE LET schedules == SchedulesOf(lecture)
         IN  \E i \in 1..Len(schedules) :
                 \A t \in 1..Len(times) : ArrayIncludes(schedules[i].range, times[t])

TimeMatch(lecture, times) ==
    IF Len(times) = 0 THEN TRUE
    ELSE LET schedules == SchedulesOf(lecture)
         IN  \E i \in 1..Len(schedules) :
                 \E j \in 1..Len(schedules[i].range) :
                     ArrayIncludes(times, schedules[i].range[j])

Filter(lecs, options) ==
    LET lowercaseQuery == ToLowerCase(options.query)
        P1(l) == TextMatch(l, lowercaseQuery)
        P2(l) == GradeMatch(l, options.grades)
        P3(l) == MajorMatch(l, options.majors)
        P4(l) == CreditMatch(l, options.credits)
        P5(l) == DayMatch(l, options.days)
        P6(l) == TimeMatch(l, options.times)
    IN  SelectSeq(SelectSeq(SelectSeq(SelectSeq(SelectSeq(SelectSeq(
            lecs, P1), P2), P3), P4), P5), P6)

LastPageOf(filtered) == MathCeilDiv(Len(filtered), PAGE_SIZE)

LastPage == LastPageOf(filteredLectures)

\* classical pagination: only the records of page p
WindowOnePage(filtered, p) == Slice(filtered, (p - 1) * PAGE_SIZE, p * PAGE_SIZE)

Window(filtered, p) == Slice(filtered, 0, p * PAGE_SIZE)

VisibleLectures == Window(filteredLectures, page)

----------------------------------------------------------------------------
(* Catalog loader: fetchAllLectures *)

\* deduplication that keeps the first record of an identifier
UniqueLecturesKeepFirst(allLectures) ==
    LET n == Len(allLectures)
        IsFirst(i) == \A j \in 1..(i - 1) : allLectures[j].id # allLectures[i].id
    IN  SelectSeq(allLectures, LAMBDA l : \E i \in 1..n : allLectures[i] = l /\ IsFirst(i))

\* new Map(allLectures.map(l => [l.id, l])).values(): a key keeps the position
\* of its first insertion, and a later entry with the same key replaces its value
UniqueLectures(allLectures) ==
    LET n == Len(allLectures)
        IsFirst(i) == \A j \in 1..(i - 1) : allLectures[j].id # allLectures[i].id
        LastOf(i) ==
            CHOOSE j \in i..n :
                /\ allLectures[j].id = allLectures[i].id
                /\ \A k \in (j + 1)..n : allLectures[k].id # allLectures[i].id
        firsts == SelectSeq([i \in 1..n |-> i], IsFirst)
    IN  [k \in 1..Len(firsts) |-> allLectures[LastOf(firsts[k])]]

\* a load that surfaces the partition that succeeded
fetchAllLecturesPartial(majorsData, liberalArtsData) ==
    UniqueLectures((IF majorsData.ok THEN majorsData.data ELSE << >>)
                   \o (IF liberalArtsData.ok THEN liberalArtsData.data ELSE << >>))

\* a response is [ok |-> BOOLEAN, data |-> sequence of lectures]
fetchAllLectures(majorsData, liberalArtsData) ==
    IF majorsData.ok /\ liberalArtsData.ok
    THEN UniqueLectures(majorsData.data \o liberalArtsData.data)
    ELSE << >>

----------------------------------------------------------------------------
(* Inputs: the two catalog partitions served by the network, the invoking     *)
(* contexts, and the update calls the user makes                              *)

IdOf(i) ==
    <<DigitChars[(i \div 100) + 1], DigitChars[((i \div 10) % 10) + 1],
      DigitChars[(i % 10) + 1]>>

Mon12 == <<"Mon", "0", "1", "-", "0", "2">>

Tue34 == <<"Tue", "0", "3", "-", "0", "4">>

\* lectures 1..250 are first-grade lectures, the first three of them on Monday;
\* the later ones are second-grade Tuesday lectures
Lecture(i, title) ==
    [id       |-> IdOf(i),
     title    |-> title,
     grade    |-> IF i <= 250 THEN 1 ELSE 2,
     credits  |-> <<"3">>,
     major    |-> "CS",
     schedule |-> IF i <= 3 THEN Mon12 ELSE IF i <= 250 THEN << >> ELSE Tue34]

\* /schedules-majors.json: lectures 1..200
MajorsPartition == [i \in 1..200 |-> Lecture(i, <<"I">>)]

\* /schedules-liberal-arts.json: lectures 151..(250 + Extra), 151..200 repeated
LiberalArtsPartition == [k \in 1..(100 + Extra) |-> Lecture(150 + k, <<"B">>)]

Failed == [ok |-> FALSE, data |-> << >>]

Ok(data) == [ok |-> TRUE, data |-> data]

MajorsResponses == {Ok(MajorsPartition), Failed}

LiberalArtsResponses == {Ok(LiberalArtsPartition), Failed}

\* what a load can settle with: the outcome of the two requests and the value
\* fetchAllLectures() resolves to
Settlement(majorsData, liberalArtsData) ==
    [majors      |-> majorsData,
     liberalArts |-> liberalArtsData,
     result      |-> fetchAllLectures(majorsData, liberalArtsData)]

Settlements ==
    {Settlement(a, b) : a \in MajorsResponses, b \in LiberalArtsResponses}

NoHint == [tableId |-> "t1", day |-> << >>, time |-> << >>]

MonHint == [tableId |-> "t1", day |-> <<"Mon">>, time |-> <<1>>]

\* searchInfo values: null, a table without hint, a table cell (day, time)
Contexts == {<< >>, <<NoHint>>, <<MonHint>>}

TableIds == {"t1", "t2"}

\* the timetable store when the dialog is first used: each table already holds
\* one slot, put there by an earlier export
ExistingSchedules ==
    [t \in TableIds |->
        <<[day |-> "Wed", range |-> <<5, 6>>, lecture |-> Lecture(9, <<"I">>)]>>]

UpdateCalls ==
    {[field |-> "query",  value |-> <<"z">>],
     [field |-> "grades", value |-> <<1>>],
     [field |-> "days",   value |-> <<"Tue">>]}

----------------------------------------------------------------------------
(* Effects and hooks of SearchDialog *)

InitialSearchOptions ==
    [query |-> << >>, grades |-> << >>, days |-> << >>, times |-> << >>,
     majors |-> << >>, credits |-> << >>]

\* Boolean(searchInfo): the Modal, and with it the scroll region, is rendered
IsOpen(info) == info # << >>

\* searchInfo?.day is truthy
HasDay(info) == info # << >> /\ info[1].day # << >> /\ info[1].day[1] # ""

\* searchInfo?.time is truthy
HasTime(info) == info # << >> /\ info[1].time # << >> /\ info[1].time[1] # 0

\* a searchInfo effect that starts from the initial criteria
SearchInfoOptionsReset(prev, info) ==
    [InitialSearchOptions EXCEPT
         !.days  = IF HasDay(info) THEN <<info[1].day[1]>> ELSE << >>,
         !.times = IF HasTime(info) THEN <<info[1].time[1]>> ELSE << >>]

\* body of the searchInfo effect: the new searchOptions
SearchInfoOptions(prev, info) ==
    [prev EXCEPT !.days  = IF HasDay(info) THEN <<info[1].day[1]>> ELSE << >>,
                 !.times = IF HasTime(info) THEN <<info[1].time[1]>> ELSE << >>]

\* a load effect that depends on searchInfo
LoadEffectDepsSearchInfo(info) == <<info>>

\* dependency arrays of the three effects
LoadEffectDeps(info) == << >>

ObserverEffectDeps(last) == <<last>>

SearchInfoEffectDeps(info) == <<info>>

\* cleanup of the observer effect: observer.unobserve($loader)
Unobserve(obs) == {}

\* the scroll region is unmounted with the Modal: the observed element is gone
Detach(obs) == {[o EXCEPT !.attached = FALSE] : o \in obs}

\* the observer effect, run after a render in which lastPage went from
\* oldLast to newLast; open: the refs of the scroll region are set
ObserverEffect(obs, oldLast, newLast, open) ==
    IF ObserverEffectDeps(oldLast) = ObserverEffectDeps(newLast)
    THEN obs
    ELSE Unobserve(obs) \cup
         (IF open THEN {[lastPage |-> newLast, attached |-> TRUE]} ELSE {})

\* an advance that is not capped by the last page
AdvanceUncapped(last, prev) == prev + 1

\* the callback of the observer registered with lastPage = last
Advance(last, prev) == Min(last, prev + 1)

\* a page that is clamped to the new last page instead of being reset
PageClamped(prev, newLast) == Min(prev, Max(newLast, 1))

\* setPage(1) of the debounced commit; prev: the page, newLast: the new lastPage
CommitPage(prev, newLast) == 1

\* setPage(1) of the searchInfo effect
ContextPage(prev, newLast) == 1

\* a debounce that forgets the pending timer without cancelling it
ClearTimeoutForgets(ts) == {[t EXCEPT !.current = FALSE] : t \in ts}

\* a debounce that arms the new timer without clearing the pending one
ClearTimeoutNone(ts) == ts

\* debounce: clearTimeout(timeout) removes the timer the closure refers to
ClearTimeout(ts) == {t \in ts : ~t.current}

\* debounce: timeout = setTimeout(() => func(...args), wait)
SetTimeout(ts, field, value) ==
    ts \cup {[field |-> field, value |-> value, elapsed |-> 0, current |-> TRUE]}

\* a commit that starts from the initial criteria
CommitOptionsFresh(prev, field, value) ==
    [InitialSearchOptions EXCEPT ![field] = IF field = "credits" THEN <<value>> ELSE value]

\* setSearchOptions(prev => ({...prev, [field]: value}))
CommitOptions(prev, field, value) ==
    [prev EXCEPT ![field] = IF field = "credits" THEN <<value>> ELSE value]

\* a searchInfo effect that clears the pending timer of debounce
ContextTimersCleared(ts) == {}

\* the searchInfo effect does not touch the timer of debounce
ContextTimers(ts) == ts

\* the load effect decides between the cache and the network
CacheHit(cache) == Len(cache) > 0

History(name) ==
    /\ lastEvent' = name
    /\ prevPage' = page

----------------------------------------------------------------------------
(* State machine *)

Init ==
    /\ mounted = FALSE
    /\ searchInfo \in Contexts
    /\ lectures = << >>
    /\ page = 1
    /\ searchOptions = InitialSearchOptions
    /\ filteredLectures = << >>
    /\ lecturesCache = << >>
    /\ inflight = 0
    /\ requests = 0
    /\ responses = << >>
    /\ observers = {}
    /\ timers = {}
    /\ schedulesMap = ExistingSchedules
    /\ closes = 0
    /\ lastEvent = "init"
    /\ prevPage = 1
    /\ calls = 0
    /\ commits = 0
    /\ lastCall = << >>
    /\ pending = << >>

\* first commit of the component: the three effects run in source order
Mount ==
    /\ ~mounted
    /\ mounted' = TRUE
    \* load effect
    /\ IF CacheHit(lecturesCache)
       THEN /\ lectures' = lecturesCache
            /\ UNCHANGED <<inflight, requests>>
       ELSE /\ inflight' = inflight + 1
            /\ requests' = requests + 2
            /\ UNCHANGED lectures
    \* searchInfo effect
    /\ searchOptions' = SearchInfoOptions(searchOptions, searchInfo)
    /\ filteredLectures' = Filter(lectures', searchOptions')
    /\ page' = ContextPage(page, LastPageOf(filteredLectures'))
    \* observer effect, with the lastPage of the first render, then after the re-render
    /\ observers' =
         ObserverEffect(
            IF IsOpen(searchInfo) THEN {[lastPage |-> LastPage, attached |-> TRUE]} ELSE {},
            LastPage, LastPageOf(filteredLectures'), IsOpen(searchInfo))
    /\ History("mount")
    /\ UNCHANGED pending
    /\ UNCHANGED <<searchInfo, lecturesCache, responses, timers, schedulesMap, closes,
                   calls, commits, lastCall>>

\* the parent renders the component with another searchInfo
ContextChange(info) ==
    /\ mounted
    /\ info # searchInfo
    /\ searchInfo' = info
    \* load effect, when its dependencies changed
    /\ IF LoadEffectDeps(searchInfo) = LoadEffectDeps(info)
       THEN UNCHANGED <<lectures, inflight, requests>>
       ELSE IF CacheHit(lecturesCache)
       THEN /\ lectures' = lecturesCache
            /\ UNCHANGED <<inflight, requests>>
       ELSE IF requests < 2 * MaxLoads
       THEN /\ inflight' = inflight + 1
            /\ requests' = requests + 2
            /\ UNCHANGED lectures
       ELSE UNCHANGED <<lectures, inflight, requests>>
    \* searchInfo effect
    /\ searchOptions' =
         IF SearchInfoEffectDeps(searchInfo) = SearchInfoEffectDeps(info)
         THEN searchOptions
         ELSE SearchInfoOptions(searchOptions, info)
    /\ filteredLectures' = Filter(lectures', searchOptions')
    /\ page' =
         IF SearchInfoEffectDeps(searchInfo) = SearchInfoEffectDeps(info)
         THEN page
         ELSE ContextPage(page, LastPageOf(filteredLectures'))
    /\ observers' =
         ObserverEffect(
            IF IsOpen(info) THEN observers ELSE Detach(observers),
            LastPage, LastPageOf(filteredLectures'), IsOpen(info))
    /\ timers' = ContextTimers(timers)
    /\ History("context")
    /\ UNCHANGED pending
    /\ UNCHANGED <<mounted, lecturesCache, responses, schedulesMap, closes,
                   calls, commits, lastCall>>

\* debouncedChangeSearchOption(field, value), called by a control of the open dialog
Update(field, value) ==
    /\ mounted
    /\ IsOpen(searchInfo)
    /\ timers = {} \/ calls < MaxCalls
    /\ timers' = SetTimeout(ClearTimeout(timers), field, value)
    /\ calls' = IF timers = {} THEN 1 ELSE calls + 1
    /\ commits' = IF timers = {} THEN 0 ELSE commits
    /\ lastCall' = <<[field |-> field, value |-> value]>>
    /\ UNCHANGED pending
    /\ UNCHANGED <<mounted, searchInfo, lectures, page, searchOptions, filteredLectures,
                   lecturesCache, inflight, requests, responses, observers,
                   schedulesMap, closes, lastEvent, prevPage>>

\* TickMs milliseconds pass; a due timer runs before more time passes
Tick ==
    /\ timers # {}
    /\ \A t \in timers : t.elapsed < WAIT
    /\ timers' = {[t EXCEPT !.elapsed = t.elapsed + TickMs] : t \in timers}
    /\ UNCHANGED pending
    /\ UNCHANGED <<mounted, searchInfo, lectures, page, searchOptions, filteredLectures,
                   lecturesCache, inflight, requests, responses, observers,
                   schedulesMap, closes, lastEvent, prevPage, calls, commits, lastCall>>

\* a timer of debounce expires: func(field, value) runs
FireTimer(t) ==
    /\ t \in timers
    /\ t.elapsed >= WAIT
    /\ timers' = timers \ {t}
    /\ searchOptions' = CommitOptions(searchOptions, t.field, t.value)
    /\ filteredLectures' = Filter(lectures, searchOptions')
    /\ page' = CommitPage(page, LastPageOf(filteredLectures'))
    /\ observers' = ObserverEffect(observers, LastPage, LastPageOf(filteredLectures'),
                                   IsOpen(searchInfo))
    /\ commits' = commits + 1
    /\ History("commit")
    /\ UNCHANGED pending
    /\ UNCHANGED <<mounted, searchInfo, lectures, lecturesCache, inflight, requests,
                   responses, schedulesMap, closes, calls, lastCall>>

\* an observer reports the sentinel of the scroll region as intersecting
Signal(o) ==
    /\ mounted
    /\ o \in observers
    /\ o.attached
    /\ page' = Advance(o.lastPage, page)
    /\ History("signal")
    /\ UNCHANGED pending
    /\ UNCHANGED <<mounted, searchInfo, lectures, searchOptions, filteredLectures,
                   lecturesCache, inflight, requests, responses, observers, timers,
                   schedulesMap, closes, calls, commits, lastCall>>

\* the promise of fetchAllLectures() settles: the .then callback runs
FetchSettle(settled) ==
    /\ inflight > 0
    /\ inflight' = inflight - 1
    /\ responses' = <<settled.majors, settled.liberalArts>>
    /\ lecturesCache' = settled.result
    /\ lectures' = lecturesCache'
    /\ filteredLectures' = Filter(lectures', searchOptions)
    /\ observers' = ObserverEffect(observers, LastPage, LastPageOf(filteredLectures'),
                                   IsOpen(searchInfo))
    /\ History("settle")
    /\ UNCHANGED pending
    /\ UNCHANGED <<mounted, searchInfo, page, searchOptions, requests, timers,
                   schedulesMap, closes, calls, commits, lastCall>>

\* parseSchedule(lecture.schedule).map(schedule => ({...schedule, lecture}))
TaggedSchedules(lecture) ==
    LET schedules == parseSchedule(lecture.schedule)
    IN  [i \in 1..Len(schedules) |->
            [day |-> schedules[i].day, range |-> schedules[i].range, lecture |-> lecture]]

\* an updater that replaces the list of the table by the new slots
ReplaceSchedules(prev, tableId, schedules) ==
    [prev EXCEPT ![tableId] = schedules]

\* prev => ({...prev, [tableId]: [...prev[tableId], ...schedules]})
AppendSchedules(prev, tableId, schedules) ==
    [prev EXCEPT ![tableId] = @ \o schedules]

\* addSchedule(lecture), called by the button of a rendered row
AddSchedule(lecture) ==
    /\ mounted
    /\ IsOpen(searchInfo)
    /\ closes < MaxExports
    /\ searchInfo[1].tableId \in DOMAIN schedulesMap
    /\ schedulesMap' =
         AppendSchedules(schedulesMap, searchInfo[1].tableId, TaggedSchedules(lecture))
    /\ closes' = closes + 1
    /\ UNCHANGED pending
    /\ UNCHANGED <<mounted, searchInfo, lectures, page, searchOptions, filteredLectures,
                   lecturesCache, inflight, requests, responses, observers, timers,
                   lastEvent, prevPage, calls, commits, lastCall>>

\* the row whose button the model presses: the first rendered one
ExportChoices ==
    IF VisibleLectures = << >> THEN {} ELSE {VisibleLectures[1]}

Next ==
    \/ Mount
    \/ \E info \in Contexts : ContextChange(info)
    \/ \E c \in UpdateCalls : Update(c.field, c.value)
    \/ Tick
    \/ \E t \in timers : FireTimer(t)
    \/ \E o \in observers : Signal(o)
    \/ \E settled \in Settlements : FetchSettle(settled)
    \/ \E l \in ExportChoices : AddSchedule(l)

Spec == Init /\ [][Next]_vars

----------------------------------------------------------------------------
(* The loader and the filter as functions of their inputs: the dialog is open  *)
(* with criteria committed while the load is still pending, and the load       *)
(* settles with two short partitions drawn from a pool of lectures in which an *)
(* identifier occurs with two different contents.                              *)

\* longest partition
MaxPartitionLen == 2

Mon12Tue34 == Mon12 \o <<"<p>">> \o Tue34

PoolLectures ==
    {[id |-> <<"C", "S">>, title |-> <<"I", "n">>, grade |-> 1, credits |-> <<"3">>,
      major |-> "CS", schedule |-> Mon12],
     [id |-> <<"C", "S">>, title |-> <<"A", "b">>, grade |-> 2, credits |-> <<"2">>,
      major |-> "EE", schedule |-> << >>],
     [id |-> <<"z", "1">>, title |-> <<"B", "i", "n">>, grade |-> 3,
      credits |-> <<"3", ".", "0">>, major |-> "CS", schedule |-> Mon12Tue34]}

PoolPartitions ==
    UNION {[1..n -> PoolLectures] : n \in 0..MaxPartitionLen}

PoolResponses == {Ok(data) : data \in PoolPartitions} \cup {Failed}

PoolSettlements == {Settlement(a, b) : a \in PoolResponses, b \in PoolResponses}

PoolCriteria ==
    [query   : {<< >>, <<"I", "N">>, <<"c">>},
     grades  : {<< >>, <<2, 3>>},
     days    : {<< >>, <<"Tue", "Wed">>},
     times   : {<< >>, <<2, 9>>},
     majors  : {<< >>, <<"CS">>},
     credits : {<< >>, << << >> >>, << <<"3">> >>}]

InitPool ==
    /\ mounted = TRUE
    /\ searchInfo = <<NoHint>>
    /\ lectures = << >>
    /\ page = 1
    /\ searchOptions \in PoolCriteria
    /\ filteredLectures = << >>
    /\ lecturesCache = << >>
    /\ inflight = 1
    /\ requests = 2
    /\ responses = << >>
    /\ observers = {[lastPage |-> 0, attached |-> TRUE]}
    /\ timers = {}
    /\ schedulesMap = ExistingSchedules
    /\ closes = 0
    /\ lastEvent = "mount"
    /\ prevPage = 1
    /\ calls = 0
    /\ commits = 0
    /\ lastCall = << >>
    /\ pending = << >>

NextPool == \E settled \in PoolSettlements : FetchSettle(settled)

SpecPool == InitPool /\ [][NextPool]_vars

----------------------------------------------------------------------------
(* Handlers and renders as separate steps.  A handler that runs outside a    *)
(* React event (timer callback, observer callback) only queues its state     *)
(* updates; React renders in a later task, and other callbacks may run before *)
(* it.  The updaters are functional or constant, so page and searchOptions    *)
(* hold the state with the queued updates applied in order, while             *)
(* filteredLectures, lastPage, the rendered window and the registered         *)
(* observer are those of the last render.  The dialog is open on the loaded   *)
(* catalog.                                                                   *)

\* the page of the last render
RenderedPage == IF pending = << >> THEN page ELSE pending[1].before

Queue(name) == pending' = Append(pending, [event |-> name, before |-> page])

\* the dialog was mounted open without hint and both requests succeeded
InitLoaded ==
    /\ mounted = TRUE
    /\ searchInfo = <<NoHint>>
    /\ responses = <<Ok(MajorsPartition), Ok(LiberalArtsPartition)>>
    /\ lecturesCache = fetchAllLectures(responses[1], responses[2])
    /\ lectures = lecturesCache
    /\ page = 1
    /\ searchOptions = InitialSearchOptions
    /\ filteredLectures = Filter(lectures, searchOptions)
    /\ inflight = 0
    /\ requests = 2
    /\ observers = {[lastPage |-> LastPage, attached |-> TRUE]}
    /\ timers = {}
    /\ schedulesMap = ExistingSchedules
    /\ closes = 0
    /\ lastEvent = "settle"
    /\ prevPage = 1
    /\ calls = 0
    /\ commits = 0
    /\ lastCall = << >>
    /\ pending = << >>

\* the function passed to debounce runs: setPage(1), setSearchOptions(...)
TimerCallback(t) ==
    /\ t \in timers
    /\ t.elapsed >= WAIT
    /\ Len(pending) < MaxPending
    /\ timers' = timers \ {t}
    /\ searchOptions' = CommitOptions(searchOptions, t.field, t.value)
    /\ page' = CommitPage(page, LastPage)
    /\ commits' = commits + 1
    /\ Queue("commit")
    /\ UNCHANGED <<mounted, searchInfo, lectures, filteredLectures, lecturesCache,
                   inflight, requests, responses, observers, schedulesMap, closes,
                   lastEvent, prevPage, calls, lastCall>>

\* the callback of a registered observer runs with an intersecting entry:
\* setPage((prev) => Math.min(lastPage, prev + 1)), lastPage from its closure
ObserverCallback(o) ==
    /\ o \in observers
    /\ o.attached
    /\ Len(pending) < MaxPending
    /\ page' = Advance(o.lastPage, page)
    /\ Queue("signal")
    /\ UNCHANGED <<mounted, searchInfo, lectures, searchOptions, filteredLectures,
                   lecturesCache, inflight, requests, responses, observers, timers,
                   schedulesMap, closes, lastEvent, prevPage, calls, commits, lastCall>>

\* React renders the queued updates: useMemo recomputes filteredLectures, and
\* the observer effect runs when lastPage changed
Render ==
    /\ pending # << >>
    /\ pending' = << >>
    /\ filteredLectures' = Filter(lectures, searchOptions)
    /\ observers' = ObserverEffect(observers, LastPage, LastPageOf(filteredLectures'),
                                   IsOpen(searchInfo))
    /\ lastEvent' = "render"
    /\ prevPage' = RenderedPage
    /\ UNCHANGED <<mounted, searchInfo, lectures, page, searchOptions, lecturesCache,
                   inflight, requests, responses, timers, schedulesMap, closes,
                   calls, commits, lastCall>>

NextDeferred ==
    \/ \E c \in UpdateCalls : Update(c.field, c.value)
    \/ Tick
    \/ \E t \in timers : TimerCallback(t)
    \/ \E o \in observers : ObserverCallback(o)
    \/ Render

SpecDeferred == InitLoaded /\ [][NextDeferred]_vars

----------------------------------------------------------------------------
(* Properties *)

\* the criteria hold the field and value of an update call
Committed(options, call) ==
    options[call.field] = (IF call.field = "credits" THEN <<call.value>> ELSE call.value)

DebounceInv ==
    /\ commits <= 1
    /\ Cardinality(timers) <= 1
    /\ \A t \in timers :
          /\ commits = 0
          /\ lastCall = <<[field |-> t.field, value |-> t.value]>>
    /\ (calls >= 1 /\ timers = {}) => commits = 1
    /\ (calls >= 1 /\ timers = {} /\ lastEvent = "commit") =>
          Committed(searchOptions, lastCall[1])

DebounceStep ==
    commits' = commits + 1 =>
        /\ \E t \in timers :
              /\ t.elapsed >= WAIT
              /\ lastCall = <<[field |-> t.field, value |-> t.value]>>
        /\ timers' = {}
        /\ Committed(searchOptions', lastCall[1])

\* C1: a burst of N >= 1 update calls, each less than 300 ms after the previous
\* one, followed by 300 ms without a call, commits exactly once, and the commit
\* carries the field and value of the last call: at most one timer is pending
\* and it holds the last call, a commit needs 300 ms since that call, and once
\* the burst's timer is gone exactly one commit has happened.
DebounceCommitsOnce == []DebounceInv /\ [][DebounceStep]_vars

\* C1 witness: a burst of two calls has been committed, with the last call's value
DebounceWitness ==
    /\ calls = 2
    /\ commits = 1
    /\ timers = {}
    /\ lastEvent = "commit"
    /\ lastCall = <<[field |-> "grades", value |-> <<1>>]>>
    /\ searchOptions.grades = <<1>>
    /\ searchOptions.query = << >>

\* C2: the page number is at least 1 in every reachable state.
PageAtLeastOne == page >= 1

\* C3: right after a debounced commit or a change of the invoking context the
\* page is 1, whatever it was before (reset, not clamp).
PageResetOnChange == lastEvent \in {"commit", "context"} => page = 1

\* C3 witness: a commit on page 3 of 253 records left 250 records and page 1
PageResetWitness ==
    /\ lastEvent = "commit"
    /\ prevPage = 3
    /\ Len(filteredLectures) = 250
    /\ page = 1

\* the least k with k * PAGE_SIZE >= n
CeilOf(n) == CHOOSE k \in 0..n : k * PAGE_SIZE >= n /\ (k = 0 \/ (k - 1) * PAGE_SIZE < n)

\* C4: a visibility signal sets the page to min(lastPage, page + 1), lastPage
\* being ceil(|FilteredView| / 100) of the current FilteredView; at the last
\* page it leaves the page unchanged; 250 records give lastPage = 3.
AdvanceToMin ==
    /\ lastEvent = "signal" =>
          page = Min(CeilOf(Len(filteredLectures)), prevPage + 1)
    /\ (lastEvent = "signal" /\ prevPage = CeilOf(Len(filteredLectures))) =>
          page = prevPage
    /\ Len(filteredLectures) = 250 => LastPage = 3

\* C4 witness: a signal at page 3 of 250 records left the page at 3
AdvanceWitness ==
    /\ lastEvent = "signal"
    /\ Len(filteredLectures) = 250
    /\ prevPage = 3
    /\ page = 3

\* C5 as claimed: of 250 records the window at page 1 has 100 elements and the
\* window at page 3 has 50.
WindowSizesClaimed ==
    Len(filteredLectures) = 250 =>
        /\ Len(Window(filteredLectures, 1)) = 100
        /\ Len(Window(filteredLectures, 3)) = 50
        /\ (page = 3 => Len(VisibleLectures) = 50)

\* C5 as amended: of 250 records the window at page 1 has exactly 100 elements
\* and the window at page 3 has all 250 (the window is the prefix of page x 100
\* records, not the third page alone).
WindowSizes ==
    Len(filteredLectures) = 250 =>
        /\ Len(Window(filteredLectures, 1)) = 100
        /\ Len(Window(filteredLectures, 3)) = 250
        /\ (page = 1 => Len(VisibleLectures) = 100)
        /\ (page = 3 => Len(VisibleLectures) = 250)

\* C5 witness: page 3 of 250 records is rendered
WindowSizesWitness == Len(filteredLectures) = 250 /\ page = 3

IsPrefix(a, b) == Len(a) <= Len(b) /\ \A i \in 1..Len(a) : a[i] = b[i]

\* C6: the rendered window is the prefix of the FilteredView of length
\* min(page x 100, |FilteredView|), in the same order; it grows with the page
\* and never exceeds the FilteredView.
WindowIsPrefix ==
    /\ Len(VisibleLectures) = Min(page * PAGE_SIZE, Len(filteredLectures))
    /\ IsPrefix(VisibleLectures, filteredLectures)
    /\ \A p \in 0..LastPage :
          IsPrefix(Window(filteredLectures, p), Window(filteredLectures, p + 1))

\* C6 witness: page 2 of more than 250 records shows the first 200
WindowIsPrefixWitness ==
    /\ page = 2
    /\ Len(filteredLectures) > 250
    /\ Len(VisibleLectures) = 200

\* C7: the merged catalog has one record per distinct identifier of the two
\* partitions, and the record kept for an identifier is its last occurrence in
\* partition A followed by partition B (so partition B's when both have it).
MergeKeepsLast ==
    (responses # << >> /\ responses[1].ok /\ responses[2].ok) =>
        LET A   == responses[1].data
            B   == responses[2].data
            all == A \o B
            ids == {all[i].id : i \in 1..Len(all)}
        IN  /\ Len(lectures) = Cardinality(ids)
            /\ {lectures[k].id : k \in 1..Len(lectures)} = ids
            /\ \A i \in 1..Len(all) :
                  (\A j \in (i + 1)..Len(all) : all[j].id # all[i].id) =>
                      \E k \in 1..Len(lectures) : lectures[k] = all[i]
            /\ \A i \in 1..Len(A), j \in 1..Len(B) :
                  A[i].id = B[j].id =>
                      \E k \in 1..Len(lectures), m \in 1..Len(B) :
                          lectures[k].id = A[i].id /\ lectures[k] = B[m]

\* C7 witness: both partitions hold the same identifier with different contents
\* and the merged catalog is partition B's record alone
MergeWitness ==
    /\ responses # << >>
    /\ responses[1].ok /\ responses[2].ok
    /\ Len(responses[1].data) = 1 /\ Len(responses[2].data) = 1
    /\ responses[1].data[1].id = responses[2].data[1].id
    /\ responses[1].data[1] # responses[2].data[1]
    /\ lectures = responses[2].data

\* C8: when either request fails the load yields an empty catalog, the filter
\* sees no record of the partition that succeeded, and no request follows.
LoadFailureYieldsEmpty ==
    (responses # << >> /\ ~(responses[1].ok /\ responses[2].ok)) =>
        /\ lectures = << >>
        /\ filteredLectures = << >>
        /\ lecturesCache = << >>
        /\ inflight = 0
        /\ requests = 2

\* C8 witness: one partition arrived, the other failed, and the context changed since
LoadFailureWitness ==
    /\ responses # << >>
    /\ responses[1].ok /\ Len(responses[1].data) > 0
    /\ ~responses[2].ok
    /\ lastEvent = "context"
    /\ requests = 2

CacheStep ==
    Len(lecturesCache) > 0 =>
        /\ lectures = lecturesCache
        /\ lectures' = lectures
        /\ lecturesCache' = lecturesCache
        /\ requests' = requests
        /\ inflight' = 0

\* C9: once a load has returned a non-empty catalog no further request is
\* issued, and the catalog the filter sees stays that result through every
\* later commit, context change, visibility signal and export.
CachedCatalogStays == [][CacheStep]_vars

\* C9 witness: the catalog is loaded, and a commit, an export and a context
\* change have happened since
CachedCatalogWitness ==
    /\ Len(lecturesCache) > 0
    /\ lectures = lecturesCache
    /\ requests = 2
    /\ commits = 1
    /\ closes = 1
    /\ lastEvent = "context"
    /\ searchInfo = << >>

\* every dimension of the criteria is empty or absent
AllEmpty(options) ==
    /\ options.query = << >>
    /\ options.grades = << >>
    /\ options.days = << >>
    /\ options.times = << >>
    /\ options.majors = << >>
    /\ (options.credits = << >> \/ options.credits = << << >> >>)

\* C10: with every dimension of the criteria empty or absent the FilteredView
\* is the catalog, same records in the same order.
FilterIdentity ==
    (responses # << >> /\ AllEmpty(searchOptions)) => filteredLectures = lectures

\* C10 witness: a two-record catalog filtered by criteria whose credits field is
\* the empty string
FilterIdentityWitness ==
    /\ responses # << >>
    /\ AllEmpty(searchOptions)
    /\ searchOptions.credits = << << >> >>
    /\ Len(lectures) = 2
    /\ filteredLectures = lectures

\* C11: with a non-empty day set in the criteria, every record of the
\* FilteredView has a parsed slot whose day is in the set, and no record with
\* an empty schedule encoding is in the FilteredView.
DayFilterSound ==
    (responses # << >> /\ Len(searchOptions.days) > 0) =>
        \A k \in 1..Len(filteredLectures) :
            /\ filteredLectures[k].schedule # << >>
            /\ LET slots == parseSchedule(filteredLectures[k].schedule)
               IN  \E i \in 1..Len(slots) :
                       \E d \in 1..Len(searchOptions.days) :
                           slots[i].day = searchOptions.days[d]

\* C11 witness: with days {Tue, Wed} a catalog holding a record without
\* schedule and a Monday+Tuesday record is filtered down to the latter
DayFilterWitness ==
    /\ responses # << >>
    /\ searchOptions.days = <<"Tue", "Wed">>
    /\ Len(lectures) = 2
    /\ lectures[1].schedule = << >>
    /\ Len(filteredLectures) = 1
    /\ filteredLectures[1].schedule = Mon12Tue34

\* the elements of a sequence
Range(s) == {s[i] : i \in 1..Len(s)}

\* a record satisfies the six predicates of the criteria at once
Satisfies(l, c) ==
    /\ \E s \in {l.title, l.id} : Includes(ToLowerCase(s), ToLowerCase(c.query))
    /\ c.grades = << >> \/ l.grade \in Range(c.grades)
    /\ c.majors = << >> \/ l.major \in Range(c.majors)
    /\ c.credits = << >> \/ c.credits[1] = << >> \/ StartsWith(l.credits, c.credits[1])
    /\ c.days = << >> \/
          \E s \in Range(parseSchedule(l.schedule)) : s.day \in Range(c.days)
    /\ c.times = << >> \/
          \E s \in Range(parseSchedule(l.schedule)) :
              Range(s.range) \cap Range(c.times) # {}

\* the subsequence of the catalog made of the records that satisfy the criteria
Subsequence(catalog, c) ==
    LET kept == SelectSeq([i \in 1..Len(catalog) |-> i],
                          LAMBDA i : Satisfies(catalog[i], c))
    IN  [k \in 1..Len(kept) |-> catalog[kept[k]]]

HintDays(info) == IF info # << >> /\ info[1].day # << >> THEN info[1].day ELSE << >>

HintTimes(info) == IF info # << >> /\ info[1].time # << >> THEN info[1].time ELSE << >>

ContextStep ==
    searchInfo' # searchInfo =>
        /\ searchOptions'.days = HintDays(searchInfo')
        /\ searchOptions'.times = HintTimes(searchInfo')
        /\ searchOptions'.query = searchOptions.query
        /\ searchOptions'.grades = searchOptions.grades
        /\ searchOptions'.majors = searchOptions.majors
        /\ searchOptions'.credits = searchOptions.credits
        /\ timers' = timers

\* C13: the step in which the invoking context changes sets days to [day] of
\* the new hint, or [] when it has no day, and times to [time], or [] when it
\* has no time, without arming or waiting for a timer, and leaves query,
\* grades, majors and credits as they were.
ContextPathImmediate == [][ContextStep]_vars

\* C13 witness: with a query and a grade set committed, the context changed to
\* the Monday cell and the criteria hold its day and time next to them
ContextPathWitness ==
    /\ lastEvent = "context"
    /\ searchInfo = <<MonHint>>
    /\ searchOptions.days = <<"Mon">>
    /\ searchOptions.times = <<1>>
    /\ searchOptions.query = <<"z">>
    /\ searchOptions.grades = <<1>>

ExportStep ==
    closes' # closes \/ schedulesMap' # schedulesMap =>
        \E l \in ExportChoices :
            LET tableId == searchInfo[1].tableId
                slots   == parseSchedule(l.schedule)
                prev    == schedulesMap[tableId]
                now     == schedulesMap'[tableId]
            IN  /\ searchInfo # << >>
                /\ Len(now) = Len(prev) + Len(slots)
                /\ \A i \in 1..Len(prev) : now[i] = prev[i]
                /\ \A i \in 1..Len(slots) :
                      now[Len(prev) + i] =
                          [day |-> slots[i].day, range |-> slots[i].range, lecture |-> l]
                /\ \A other \in DOMAIN schedulesMap \ {tableId} :
                      schedulesMap'[other] = schedulesMap[other]
                /\ DOMAIN schedulesMap' = DOMAIN schedulesMap
                /\ closes' = closes + 1

\* C14: an export to a table that has an entry in the store makes the list of
\* that table its previous list followed by the parsed slots of the record, each
\* tagged with the record; the previous entries keep content and order, the
\* lists of the other tables are unchanged, and onClose is called once.
ExportAppends == [][ExportStep]_vars

\* C14 witness: the first row of the Tuesday lectures was exported to table t1,
\* which held one slot before
ExportWitness ==
    /\ closes = 1
    /\ Len(schedulesMap["t1"]) = 2
    /\ schedulesMap["t1"][1] = ExistingSchedules["t1"][1]
    /\ schedulesMap["t1"][2].day = "Tue"
    /\ schedulesMap["t1"][2].range = <<3, 4>>
    /\ schedulesMap["t1"][2].lecture = Lecture(251, <<"B">>)
    /\ schedulesMap["t2"] = ExistingSchedules["t2"]

\* only visibility signals were handled since the last render
OnlySignals == \A i \in 1..Len(pending) : pending[i].event = "signal"

\* C15: when several visibility signals are handled before the window is
\* recomputed the page increases by at most one in total, and any single signal
\* increases the page by at most one.
SignalsIdempotent ==
    /\ (pending # << >> /\ OnlySignals) => page <= RenderedPage + 1
    /\ (pending # << >> /\ pending[Len(pending)].event = "signal") =>
           page <= pending[Len(pending)].before + 1

\* C16: a visibility signal handled after a criteria commit is applied to the
\* page that the commit reset, and the page after the commit followed by one
\* signal is min(lastPage, 2) with the lastPage of the new FilteredView, not a
\* value derived from the page or the lastPage of before the commit.
ResetBeforeAdvance ==
    (Len(pending) = 2 /\ pending[1].event = "commit" /\ pending[2].event = "signal") =>
        page = Min(LastPageOf(Filter(lectures, searchOptions)), 2)

\* C17: at any time at most one debounced commit is pending, the timer armed by
\* the most recent update call, and at most one catalog load is in flight; the
\* session issues the two requests of its load once.
SingleTimerSingleLoad ==
    /\ Cardinality(timers) <= 1
    /\ \A t \in timers : t.current /\ lastCall = <<[field |-> t.field, value |-> t.value]>>
    /\ inflight <= 1
    /\ requests <= 2

\* C17 witness: while the load is in flight a second update call replaced the
\* timer of the first, and the context changed since the mount
SingleTimerSingleLoadWitness ==
    /\ inflight = 1
    /\ calls = 2
    /\ Cardinality(timers) = 1
    /\ lastEvent = "context"

\* C18: the visibility observer is deregistered when its scroll region is torn
\* down (the dialog closes) and when lastPage changes, so that no registration
\* is left to signal for a region that is gone or with a lastPage that is not
\* the current one, and at most one registration exists at a time.
ObserverDeregistered ==
    /\ (mounted /\ ~IsOpen(searchInfo)) => observers = {}
    /\ \A o \in observers : o.lastPage = LastPage
    /\ Cardinality(observers) <= 1

CommitFrameStep ==
    commits' = commits + 1 =>
        /\ \A f \in DOMAIN searchOptions :
              f # lastCall[1].field => searchOptions'[f] = searchOptions[f]
        /\ Committed(searchOptions', lastCall[1])
        /\ DOMAIN searchOptions' = DOMAIN searchOptions
        /\ timers' = {}

\* C19: a debounced commit changes the one field of the criteria named by the
\* last update call and leaves every other field as it was; after an update to
\* a field A followed within the quiet period by an update to another field B,
\* the commit sets B only, and no timer is left that could commit A.
CommitChangesOneField == [][CommitFrameStep]_vars

\* C19 witness: with a query committed earlier, a burst of two calls ending
\* with days was committed: days is set, query is kept, grades is still empty
CommitChangesOneFieldWitness ==
    /\ lastEvent = "commit"
    /\ calls = 2
    /\ commits = 1
    /\ lastCall = <<[field |-> "days", value |-> <<"Tue">>]>>
    /\ searchOptions.days = <<"Tue">>
    /\ searchOptions.query = <<"z">>
    /\ searchOptions.grades = << >>

\* a pending timer is never overdue, with the dialog open or closed
ContextKeepsTimerInv == \A t \in timers : t.elapsed < WAIT + TickMs

ContextKeepsTimerStep ==
    /\ searchInfo' # searchInfo => timers' = timers
    /\ \A t \in timers :
          (t.field = "days" /\ commits' = commits + 1) =>
              /\ t.elapsed >= WAIT
              /\ searchOptions'.days = t.value
              /\ page' = 1

\* C20: a change of the invoking context leaves the pending timer of a
\* debounced update as it is; a pending update of days is committed when its
\* 300 ms have passed, whatever the context has become: the commit replaces the
\* days set from the hint and resets the page to 1.
ContextKeepsTimer == []ContextKeepsTimerInv /\ [][ContextKeepsTimerStep]_vars

\* C20 witness: an update of days was pending when the dialog was closed (an
\* update call needs the open dialog); it was committed after the close, over
\* the empty days set by the context change
ContextKeepsTimerWitness ==
    /\ lastEvent = "commit"
    /\ searchInfo = << >>
    /\ lastCall = <<[field |-> "days", value |-> <<"Tue">>]>>
    /\ searchOptions.days = <<"Tue">>
    /\ commits = 1
    /\ page = 1

====
